---- MODULE Spec2Model ----
(***************************************************************************)
(* A model of cgpa_app.py (a Streamlit page).  Every user interaction      *)
(* re-runs the script from top to bottom; the state that survives from    *)
(* one run to the next is the widgets' values and st.session_state.       *)
(*                                                                         *)
(* Numbers.  Marks, weights and totals are Python floats; the model works *)
(* in whole percentage points (integers).  The two tolerances of the code *)
(* (1e-6 on the weight sum, 1e-9 on the capacity test) are smaller than   *)
(* one point, so on whole points "abs(s - 100) > 1e-6" is "s # 100" and   *)
(* "need > remaining_max + 1e-9" is "need > remaining_max".  Quotients    *)
(* (the proportional share, the average) are kept exact as num/den pairs. *)
(* A Python None is the empty tuple <<>>, a present value v is <<v>>.      *)
(***************************************************************************)
EXTENDS Integers, Sequences, FiniteSets, TLC

\* ------------------------------------------------------------------------
\* Optional values (None | float)
\* ------------------------------------------------------------------------
None == <<>>
Some(v) == <<v>>
IsNone(o) == o = <<>>
Val(o) == o[1]
\* "0.0 if m is None else float(m)"
OrZero(o) == IF IsNone(o) THEN 0 ELSE Val(o)

Min(a, b) == IF a <= b THEN a ELSE b
Max(a, b) == IF a >= b THEN a ELSE b

Comps == 1..3

\* ------------------------------------------------------------------------
\* Helper functions (cgpa_app.py lines 10-103)
\* ------------------------------------------------------------------------
\* Mutant: the C- band loses its lower bound 45.
grade_point_and_letter_absolute_gt45(total) ==
    IF total >= 90 THEN [gp |-> 10, letter |-> "A",  cutoff |-> 90]
    ELSE IF total >= 80 THEN [gp |-> 9, letter |-> "A-", cutoff |-> 80]
    ELSE IF total >= 70 THEN [gp |-> 8, letter |-> "B",  cutoff |-> 70]
    ELSE IF total >= 60 THEN [gp |-> 7, letter |-> "B-", cutoff |-> 60]
    ELSE IF total >= 50 THEN [gp |-> 6, letter |-> "C",  cutoff |-> 50]
    ELSE IF total > 45  THEN [gp |-> 5, letter |-> "C-", cutoff |-> 45]
    ELSE IF total >= 35 THEN [gp |-> 4, letter |-> "D",  cutoff |-> 35]
    ELSE [gp |-> 2, letter |-> "E", cutoff |-> 0]

grade_point_and_letter_absolute(total) ==
    IF total >= 90 THEN [gp |-> 10, letter |-> "A",  cutoff |-> 90]
    ELSE IF total >= 80 THEN [gp |-> 9, letter |-> "A-", cutoff |-> 80]
    ELSE IF total >= 70 THEN [gp |-> 8, letter |-> "B",  cutoff |-> 70]
    ELSE IF total >= 60 THEN [gp |-> 7, letter |-> "B-", cutoff |-> 60]
    ELSE IF total >= 50 THEN [gp |-> 6, letter |-> "C",  cutoff |-> 50]
    ELSE IF total >= 45 THEN [gp |-> 5, letter |-> "C-", cutoff |-> 45]
    ELSE IF total >= 35 THEN [gp |-> 4, letter |-> "D",  cutoff |-> 35]
    ELSE [gp |-> 2, letter |-> "E", cutoff |-> 0]

\* The rank order of grade_point_and_letter_relative.
order == << <<"A", 10>>, <<"A-", 9>>, <<"B", 8>>, <<"B-", 7>>,
            <<"C", 6>>, <<"C-", 5>>, <<"D", 4>>, <<"E", 2>> >>

Letters == {order[k][1] : k \in 1..Len(order)}

\* Multipliers are slider values with step 0.1, kept in tenths; a cutoff
\* mean + mult * std is therefore kept in tenths of a point.
build_relative_cutoffs(mean, std, multipliers) ==
    [l \in DOMAIN multipliers |-> 10 * mean + multipliers[l] * std]

\* "for letter, gp in order: if total >= cutoffs.get(letter, -1e9): return"
\* (cutoffs always has all eight letters, so the default is never used).
grade_point_and_letter_relative(total, cutoffs) ==
    LET hits == {k \in 1..Len(order) : 10 * total >= cutoffs[order[k][1]]}
    IN  IF hits = {} THEN [gp |-> 2, letter |-> "E"]
        ELSE LET k == CHOOSE x \in hits : \A y \in hits : x <= y
             IN  [gp |-> order[k][2], letter |-> order[k][1]]

total_percent_from_components(m1, m2, m3) ==
    OrZero(m1) + OrZero(m2) + OrZero(m3)

\* remaining_max = (w1 if r1 else 0.0) + (w2 if r2 else 0.0) + (w3 if r3 else 0.0)
ChosenWeight(weights, flags) ==
    (IF flags[1] THEN weights[1] ELSE 0) + (IF flags[2] THEN weights[2] ELSE 0)
        + (IF flags[3] THEN weights[3] ELSE 0)

\* required[comp] of the proportional suggestion (lines 76-84); the
\* suggested total min(current + (w / T) * need, w) is the exact quotient
\* num / den with den = T = total_weight_of_chosen.
ProportionalEntry(r, w, curr, need, T) ==
    IF r THEN [suggested_total |-> Some([num |-> Min(OrZero(curr) * T + w * need, w * T),
                                         den |-> T]),
               current |-> OrZero(curr), max |-> w]
    ELSE [suggested_total |-> None, current |-> OrZero(curr), max |-> w]

\* single_comp_requirements[comp] (lines 88-94)
SingleEntry(r, w, need, remaining_max) ==
    IF r THEN Some([required_absolute |-> Min(Max(0, need - (remaining_max - w)), w)])
    ELSE None

\* Mutant: the no-capacity test comes before the already-met test.
required_scores_to_reach_target_capfirst(current_scores, weights, remaining_flags, target_total) ==
    LET current_sum == OrZero(current_scores[1]) + OrZero(current_scores[2])
                         + OrZero(current_scores[3])
        need == target_total - current_sum
        remaining_max == ChosenWeight(weights, remaining_flags)
    IN  IF remaining_max <= 0
        THEN [status |-> "impossible_no_remaining", need |-> need]
        ELSE IF need <= 0
        THEN [status |-> "already_met", need |-> 0]
        ELSE IF need > remaining_max
        THEN [status |-> "impossible_exceed", need |-> need,
              remaining_max |-> remaining_max]
        ELSE [status |-> "possible", need |-> need, remaining_max |-> remaining_max,
              required_proportional |->
                  [k \in Comps |-> ProportionalEntry(remaining_flags[k], weights[k],
                                        current_scores[k], need, remaining_max)],
              required_single_comp |->
                  [k \in Comps |-> SingleEntry(remaining_flags[k], weights[k],
                                               need, remaining_max)]]

\* required_scores_to_reach_target (lines 49-103), without "details"
required_scores_to_reach_target(current_scores, weights, remaining_flags, target_total) ==
    LET current_sum == OrZero(current_scores[1]) + OrZero(current_scores[2])
                         + OrZero(current_scores[3])
        need == target_total - current_sum
        remaining_max == ChosenWeight(weights, remaining_flags)
        total_weight_of_chosen == ChosenWeight(weights, remaining_flags)
    IN  IF need <= 0
        THEN [status |-> "already_met", need |-> 0]
        ELSE IF remaining_max <= 0
        THEN [status |-> "impossible_no_remaining", need |-> need]
        ELSE IF need > remaining_max
        THEN [status |-> "impossible_exceed", need |-> need,
              remaining_max |-> remaining_max]
        ELSE [status |-> "possible", need |-> need, remaining_max |-> remaining_max,
              required_proportional |->
                  [k \in Comps |-> ProportionalEntry(remaining_flags[k], weights[k],
                                        current_scores[k], need, total_weight_of_chosen)],
              required_single_comp |->
                  [k \in Comps |-> SingleEntry(remaining_flags[k], weights[k],
                                               need, remaining_max)]]

\* gp_to_total = {10:90, 9:80, 8:70, 7:60, 6:50, 5:45, 4:35, 2:0} (line 388)
TargetOptions == {10, 9, 8, 7, 6, 5, 4, 2}
\* Mutant: 5 is given C's cutoff.
gp_to_total_typo(g) ==
    CASE g = 10 -> 90 [] g = 9 -> 80 [] g = 8 -> 70 [] g = 7 -> 60
      [] g = 6 -> 50 [] g = 5 -> 50 [] g = 4 -> 35 [] g = 2 -> 0

gp_to_total(g) ==
    CASE g = 10 -> 90 [] g = 9 -> 80 [] g = 8 -> 70 [] g = 7 -> 60
      [] g = 6 -> 50 [] g = 5 -> 45 [] g = 4 -> 35 [] g = 2 -> 0


\* ------------------------------------------------------------------------
\* Bounds and input sets of the model
\* ------------------------------------------------------------------------
\* num_courses is 1..12 in the page; the model explores 1..MaxCourses.
MaxCourses == 2
\* Totals handed to the grade mapper directly: 0..MaxTotal (above 100 too).
MaxTotal == 110

DefaultWeights == <<30, 30, 40>>
\* Weights a user enters: the default, and a triple that sums to 90.
WeightChoices == {<<30, 30, 40>>, <<30, 30, 30>>}
\* What a user enters for one course's three components (None: the
\* "pending" box is ticked).  Every mark is within 0..weight for every
\* triple of WeightChoices, as st.number_input(max_value=w) demands.
MarkChoices == { <<Some(0), Some(0), Some(0)>>,
                 <<Some(25), Some(28), Some(30)>>,
                 <<Some(25), Some(28), None>> }
\* Text typed into a course-name box; "" falls back to "Course i".
NameInputs == {"", "Course 1"}

\* The selectbox's two options, as word sequences, so that
\* startswith("Relative") and == "Relative" stay different tests.
AbsoluteMode == <<"Absolute", "(default)">>
RelativeMode == <<"Relative", "(cohort-based)">>
GradingModes == {AbsoluteMode, RelativeMode}
startswith(s, prefix) ==
    Len(s) >= Len(prefix) /\ SubSeq(s, 1, Len(prefix)) = prefix

\* Slider defaults (in tenths), and a setting a user can reach in which the
\* cutoffs are not in rank order (A below A-).
DefaultMultipliers ==
    [l \in Letters |->
        CASE l = "A" -> 15 [] l = "A-" -> 10 [] l = "B" -> 5 [] l = "B-" -> 0
          [] l = "C" -> -5 [] l = "C-" -> -10 [] l = "D" -> -15 [] l = "E" -> -30]
MultiplierChoices ==
    {DefaultMultipliers, [DefaultMultipliers EXCEPT !["A"] = -20]}

\* An uploaded cohort file: None, a CSV without a numeric column, or a CSV
\* whose first numeric column has the given mean and (population) std.
UploadChoices == { None,
                   Some([numeric |-> FALSE, mean |-> 0, std |-> 0]),
                   Some([numeric |-> TRUE, mean |-> 50, std |-> 10]) }
ManualChoices == { [mean |-> 0, std |-> 0], [mean |-> 60, std |-> 10] }

\* The sidebar's grading widgets as one run of the script sees them
\* (lines 135-154): outside Relative mode the upload and the multipliers
\* are None and the manual values 0.0.
SidebarGrading ==
    { [grading_mode |-> AbsoluteMode, cohort_upload |-> None,
       manual_mean |-> 0, manual_std |-> 0, multipliers |-> None] }
    \cup
    { [grading_mode |-> RelativeMode, cohort_upload |-> u,
       manual_mean |-> m.mean, manual_std |-> m.std, multipliers |-> mu] :
         u \in UploadChoices, m \in ManualChoices, mu \in MultiplierChoices }

\* ------------------------------------------------------------------------
\* State
\* ------------------------------------------------------------------------
VARIABLES
    num_courses,     \* sidebar number_input
    course_names,    \* the list built at lines 116-119
    same_weights,    \* sidebar checkbox
    gw,              \* (gw1, gw2, gw3), or None when same_weights is off
    wkeys,           \* session_state w1_i/w2_i/w3_i (per-course weights)
    ec,              \* per course (ec1, ec2, ec3); None where pending
    session_state,   \* the stored keys: last_results_df, courses_data, ...
    page,            \* what the latest run of the script rendered
    call,            \* the latest call of a helper function and its result
    computed         \* history: Compute was pressed with all weights summing
                     \* to 100 since the last Reset (or the start)

vars == <<num_courses, course_names, same_weights, gw, wkeys, ec,
          session_state, page, call, computed>>

inputs == <<num_courses, course_names, same_weights, gw, wkeys, ec>>

StoredKeys == {"last_results_df", "courses_data", "weights_mode",
               "global_weights", "grading_mode_saved"}

Courses == 1..num_courses
ZeroMarks == <<Some(0), Some(0), Some(0)>>
DefaultName(i) == IF i = 1 THEN "Course 1" ELSE IF i = 2 THEN "Course 2" ELSE "Course 3"

NoCall == None

\* ------------------------------------------------------------------------
\* One run of the script: the main input area (lines 177-215)
\* ------------------------------------------------------------------------
CourseWeights(sw, g, wk, i) == IF sw THEN g ELSE wk[i]

courses_data_of(n, names, sw, g, wk, marks) ==
    [i \in 1..n |->
        [name |-> names[i],
         ec1 |-> marks[i][1], ec2 |-> marks[i][2], ec3 |-> marks[i][3],
         w1 |-> CourseWeights(sw, g, wk, i)[1],
         w2 |-> CourseWeights(sw, g, wk, i)[2],
         w3 |-> CourseWeights(sw, g, wk, i)[3]]]

WeightSum(c) == c.w1 + c.w2 + c.w3


\* ------------------------------------------------------------------------
\* Compute: grading one course (lines 260-295)
\* ------------------------------------------------------------------------
\* pd.read_csv(cohort_upload) and the statistics of its first numeric
\* column (lines 265-273).  cohort_upload is a file object (a BytesIO):
\* read_csv reads it to its end and the code never rewinds it, so a second
\* read_csv in the same run finds no data and raises, which the except
\* clause turns into an st.error with mean and std left None.  `consumed`
\* says whether the file was read before in this run.
read_cohort_stats(upload, consumed) ==
    IF consumed THEN None
    ELSE IF upload.numeric THEN Some([mean |-> upload.mean, std |-> upload.std])
    ELSE None

\* mean, std as lines 263-276 leave them: the upload's, else the manual
\* pair when both are > 0, else None.
cohort_stats(g, consumed) ==
    LET up == IF IsNone(g.cohort_upload) THEN None
              ELSE read_cohort_stats(Val(g.cohort_upload), consumed)
    IN  IF IsNone(up) /\ g.manual_mean > 0 /\ g.manual_std > 0
        THEN Some([mean |-> g.manual_mean, std |-> g.manual_std])
        ELSE up

\* gp, letter of one course (lines 262-284)
grade_course(total, g, consumed) ==
    IF startswith(g.grading_mode, <<"Relative">>)
    THEN LET st == cohort_stats(g, consumed)
         IN  IF IsNone(st)
             THEN LET a == grade_point_and_letter_absolute(total)
                  IN  [gp |-> a.gp, letter |-> a.letter]
             ELSE grade_point_and_letter_relative(total,
                      build_relative_cutoffs(Val(st).mean, Val(st).std, g.multipliers))
    ELSE LET a == grade_point_and_letter_absolute(total)
         IN  [gp |-> a.gp, letter |-> a.letter]

\* f"{x:.2f}" of a whole number of points: the decimal string, kept as the
\* number of hundredths it denotes; "" (a pending component) is None.
Fmt2(x) == 100 * x
FmtMark(m) == IF IsNone(m) THEN None ELSE Some(Fmt2(Val(m)))

\* rows.append({...}) (lines 286-295); PassBool is gp >= 4.5
result_row(c, g, consumed) ==
    LET total == total_percent_from_components(c.ec1, c.ec2, c.ec3)
        gl == grade_course(total, g, consumed)
    IN  [Course |-> c.name,
         EC1 |-> FmtMark(c.ec1), EC2 |-> FmtMark(c.ec2), EC3 |-> FmtMark(c.ec3),
         Total |-> Fmt2(total),
         Grade_Point |-> gl.gp, Grade |-> gl.letter,
         PassBool |-> (2 * gl.gp >= 9)]

\* The loop "for c in courses_data" (line 260): in Relative mode with an
\* upload, every iteration calls read_csv on the same file object.
build_rows(cd, g) ==
    [i \in DOMAIN cd |->
        result_row(cd[i], g, i > 1 /\ ~IsNone(g.cohort_upload))]

RECURSIVE SumGP(_)
SumGP(gps) == IF gps = <<>> THEN 0 ELSE Head(gps) + SumGP(Tail(gps))

\* Mutant: the last course is left out of the average.
cgpa_of_without_last(res_df) ==
    LET valid_gps == [i \in 1..(Len(res_df) - 1) |-> res_df[i].Grade_Point]
    IN  IF Len(valid_gps) > 0
        THEN Some([num |-> SumGP(valid_gps), den |-> Len(valid_gps)])
        ELSE None

\* cgpa = sum(valid_gps)/len(valid_gps) if len(valid_gps) > 0 else None
\* (lines 330-331), the exact quotient num / den.
cgpa_of(res_df) ==
    LET valid_gps == [i \in DOMAIN res_df |-> res_df[i].Grade_Point]
    IN  IF Len(valid_gps) > 0
        THEN Some([num |-> SumGP(valid_gps), den |-> Len(valid_gps)])
        ELSE None

\* The weight validation of Compute (lines 249-254): one st.error per
\* course whose weights do not sum to 100, in course order.
\* Mutant: only the first course is validated.
weight_errors_first_only(cd) ==
    IF cd = <<>> THEN <<>>
    ELSE IF WeightSum(Head(cd)) # 100
         THEN <<[course |-> Head(cd).name, sum |-> Fmt2(WeightSum(Head(cd)))]>>
         ELSE <<>>

RECURSIVE weight_errors(_)
weight_errors(cd) ==
    IF cd = <<>> THEN <<>>
    ELSE (IF WeightSum(Head(cd)) # 100
          THEN <<[course |-> Head(cd).name, sum |-> Fmt2(WeightSum(Head(cd)))]>>
          ELSE <<>>) \o weight_errors(Tail(cd))

\* Lines 299-303
store_results(ss, res_df, cd, sw, g, mode) ==
    [k \in StoredKeys |->
        CASE k = "last_results_df" -> res_df
          [] k = "courses_data" -> cd
          [] k = "weights_mode" -> (IF sw THEN "global" ELSE "per-course")
          [] k = "global_weights" -> (IF sw THEN g ELSE None)
          [] k = "grading_mode_saved" -> mode]

\* ------------------------------------------------------------------------
\* The projection area (lines 361-425)
\* ------------------------------------------------------------------------
\* "last_results_df" in st.session_state
has_results(ss) == "last_results_df" \in DOMAIN ss

\* st.session_state.get("grading_mode_saved") == "Relative" (line 392)
projection_warning(ss) ==
    "grading_mode_saved" \in DOMAIN ss /\ ss["grading_mode_saved"] = <<"Relative">>

\* df_prev.index[df_prev["Course"] == chosen_course][0]
course_index(df_prev, chosen_course) ==
    CHOOSE i \in DOMAIN df_prev :
        /\ df_prev[i].Course = chosen_course
        /\ \A j \in DOMAIN df_prev : df_prev[j].Course = chosen_course => i <= j

\* Lines 367-374: the entry and the weights the projection works on.
projection_entry(ss, chosen_course) ==
    ss["courses_data"][course_index(ss["last_results_df"], chosen_course)]

projection_weights(ss, course_entry) ==
    IF ss["weights_mode"] = "global"
    THEN ss["global_weights"]
    ELSE <<course_entry.w1, course_entry.w2, course_entry.w3>>

\* The options of "Pick a course for projection"
course_options(ss) ==
    {ss["last_results_df"][i].Course : i \in DOMAIN ss["last_results_df"]}


\* ------------------------------------------------------------------------
\* What a run renders
\* ------------------------------------------------------------------------
\* The page's `grading` field is the sidebar's grading selection as the
\* grading loop of Compute read it (None in a run that graded nothing).

\* A run in which neither button was pressed: no results table, and the
\* projection area or the "Compute results first" notice (lines 361, 425).
plain_page(ss, kind) ==
    [run |-> kind, stopped |-> FALSE, errors |-> <<>>, grading |-> None,
     results |-> None, cgpa |-> None,
     projection |-> IF has_results(ss) THEN "offered" ELSE "info",
     warning |-> has_results(ss) /\ projection_warning(ss)]

\* Compute stopped by st.stop() (line 256): nothing below it is rendered.
stopped_page(errs) ==
    [run |-> "compute", stopped |-> TRUE, errors |-> errs, grading |-> None,
     results |-> None, cgpa |-> None, projection |-> "none", warning |-> FALSE]

\* Compute that went through (lines 304-353), then the projection area.
results_page(ss, res_df, g) ==
    [run |-> "compute", stopped |-> FALSE, errors |-> <<>>, grading |-> Some(g),
     results |-> Some(res_df), cgpa |-> cgpa_of(res_df),
     projection |-> IF has_results(ss) THEN "offered" ELSE "info",
     warning |-> has_results(ss) /\ projection_warning(ss)]

\* Mutant: Reset forgets the snapshot that goes with the results table.
keys_to_clear_partial == {"last_results_df"}
\* keys_to_clear of Reset, the stored-result part (line 241)
keys_to_clear == {"last_results_df", "courses_data", "weights_mode",
                  "global_weights", "grading_mode_saved"}

MarksFit(m, w) == \A k \in Comps : OrZero(m[k]) <= w[k]

\* ------------------------------------------------------------------------
\* Initial state: the first run of the script, all widgets at their
\* defaults (lines 113-127, 162-168), nothing stored.
\* ------------------------------------------------------------------------
Init ==
    /\ num_courses = 1
    /\ course_names = <<"Course 1">>
    /\ same_weights = TRUE
    /\ gw = DefaultWeights
    /\ wkeys = <<>>
    /\ ec = <<ZeroMarks>>
    /\ session_state = <<>>
    /\ page = plain_page(<<>>, "init")
    /\ call = NoCall
    /\ computed = FALSE

\* ------------------------------------------------------------------------
\* Actions: one per user interaction, each a full run of the script
\* ------------------------------------------------------------------------
\* The user changes "Number of courses".  Widgets of courses that are no
\* longer rendered lose their state; a new course starts from the defaults.
SetNumCourses(n) ==
    /\ n # num_courses
    /\ num_courses' = n
    /\ course_names' = [i \in 1..n |-> IF i <= num_courses THEN course_names[i]
                                       ELSE DefaultName(i)]
    /\ ec' = [i \in 1..n |-> IF i <= num_courses THEN ec[i] ELSE ZeroMarks]
    /\ wkeys' = IF same_weights THEN <<>>
                ELSE [i \in 1..n |-> IF i <= num_courses THEN wkeys[i]
                                     ELSE DefaultWeights]
    /\ page' = plain_page(session_state, "input")
    /\ call' = NoCall
    /\ UNCHANGED <<same_weights, gw, session_state, computed>>

\* The user edits a course name (line 118-119).
SetCourseName(i, text) ==
    /\ i \in Courses
    /\ course_names' = [course_names EXCEPT
                           ![i] = IF text = "" THEN DefaultName(i) ELSE text]
    /\ page' = plain_page(session_state, "input")
    /\ call' = NoCall
    /\ UNCHANGED <<num_courses, same_weights, gw, wkeys, ec, session_state, computed>>

\* The user ticks or unticks "Use same weights for all courses?" (lines
\* 123-131, 169-175): the weight inputs that appear start from 30/30/40.
SetSameWeights ==
    /\ same_weights' = ~same_weights
    /\ gw' = IF same_weights THEN None ELSE DefaultWeights
    /\ wkeys' = IF same_weights THEN [i \in Courses |-> DefaultWeights] ELSE <<>>
    /\ page' = plain_page(session_state, "input")
    /\ call' = NoCall
    /\ UNCHANGED <<num_courses, course_names, ec, session_state, computed>>

\* The user edits the global weights (lines 125-127).
SetGlobalWeights(w) ==
    /\ same_weights
    /\ \A i \in Courses : MarksFit(ec[i], w)
    /\ gw' = w
    /\ page' = plain_page(session_state, "input")
    /\ call' = NoCall
    /\ UNCHANGED <<num_courses, course_names, same_weights, wkeys, ec,
                   session_state, computed>>

\* The user edits one course's weights (lines 187-191).
SetCourseWeights(i, w) ==
    /\ ~same_weights
    /\ i \in Courses
    /\ MarksFit(ec[i], w)
    /\ wkeys' = [wkeys EXCEPT ![i] = w]
    /\ page' = plain_page(session_state, "input")
    /\ call' = NoCall
    /\ UNCHANGED <<num_courses, course_names, same_weights, gw, ec,
                   session_state, computed>>

\* The user edits one course's pending boxes and marks (lines 196-214).
EnterMarks(i, m) ==
    /\ i \in Courses
    /\ MarksFit(m, CourseWeights(same_weights, gw, wkeys, i))
    /\ ec' = [ec EXCEPT ![i] = m]
    /\ page' = plain_page(session_state, "input")
    /\ call' = NoCall
    /\ UNCHANGED <<num_courses, course_names, same_weights, gw, wkeys,
                   session_state, computed>>

\* For the history variable: every course's weights sum to 100.
AllWeightsSumTo100 ==
    \A i \in Courses :
        LET w == CourseWeights(same_weights, gw, wkeys, i)
        IN  w[1] + w[2] + w[3] = 100

\* "Compute Results" pressed, with the sidebar's grading widgets at g
\* (lines 247-353, then 361-425).
Compute(g) ==
    LET courses_data == courses_data_of(num_courses, course_names, same_weights,
                                        gw, wkeys, ec)
        errs == weight_errors(courses_data)
        res_df == build_rows(courses_data, g)
        ss == store_results(session_state, res_df, courses_data, same_weights,
                            gw, g.grading_mode)
    IN  /\ IF errs # <<>>
           THEN /\ page' = stopped_page(errs)
                /\ UNCHANGED session_state
           ELSE /\ session_state' = ss
                /\ page' = results_page(ss, res_df, g)
        /\ computed' = (computed \/ AllWeightsSumTo100)
        /\ call' = NoCall
        /\ UNCHANGED inputs

\* "Reset" pressed (lines 237-244): the keys are deleted and the script is
\* run again, which puts the marks and per-course weights back to their
\* defaults (lines 162-175).
Reset ==
    LET ss == [k \in DOMAIN session_state \ keys_to_clear |-> session_state[k]]
    IN  /\ session_state' = ss
        /\ ec' = [i \in Courses |-> ZeroMarks]
        /\ wkeys' = IF same_weights THEN <<>> ELSE [i \in Courses |-> DefaultWeights]
        /\ page' = plain_page(ss, "reset")
        /\ call' = NoCall
        /\ computed' = FALSE
        /\ UNCHANGED <<num_courses, course_names, same_weights, gw>>

\* Lines 387-396: the target's cutoff, and the call of the solver.
projection_request(current, w, flags, target_gp) ==
    LET target_total == gp_to_total(target_gp)
    IN  Some([fn |-> "required_scores_to_reach_target", done |-> TRUE,
              current_scores |-> current, weights |-> w, remaining_flags |-> flags,
              target_gp |-> target_gp, target_total |-> target_total,
              req |-> required_scores_to_reach_target(current, w, flags, target_total)])

\* The projection request of lines 363-396 for the widget values
\* (chosen_course, target_gp, r1..r3), and its response.
projection_call(ss, chosen_course, target_gp, flags) ==
    LET course_entry == projection_entry(ss, chosen_course)
        current == <<course_entry.ec1, course_entry.ec2, course_entry.ec3>>
        w == projection_weights(ss, course_entry)
    IN  projection_request(current, w, flags, target_gp)

\* The user sets the projection widgets; they are on the page only when
\* the last run rendered the projection area.  The selectbox hands the
\* script the chosen option's text (line 363).
Project(chosen_course, target_gp, flags) ==
    /\ page.projection = "offered"
    /\ chosen_course \in course_options(session_state)
    /\ page' = plain_page(session_state, "project")
    /\ call' = Some([chosen_course |-> chosen_course]
                       @@ Val(projection_call(session_state, chosen_course,
                                              target_gp, flags)))
    /\ UNCHANGED <<inputs, session_state, computed>>

\* Projection inputs explored in the session model.
ProjTargets == {8, 10}
ProjFlags == {<<TRUE, FALSE, TRUE>>}
AllNames == {DefaultName(i) : i \in 1..MaxCourses}

Next ==
    \/ \E n \in 1..MaxCourses : SetNumCourses(n)
    \/ \E i \in 1..MaxCourses, t \in NameInputs : SetCourseName(i, t)
    \/ SetSameWeights
    \/ \E w \in WeightChoices : SetGlobalWeights(w)
    \/ \E i \in 1..MaxCourses, w \in WeightChoices : SetCourseWeights(i, w)
    \/ \E i \in 1..MaxCourses, m \in MarkChoices : EnterMarks(i, m)
    \/ \E g \in SidebarGrading : Compute(g)
    \/ Reset
    \/ \E c \in AllNames, t \in ProjTargets, f \in ProjFlags : Project(c, t, f)

Spec == Init /\ [][Next]_vars


\* ------------------------------------------------------------------------
\* The helper functions on their own: every call over bounded inputs
\* ------------------------------------------------------------------------
FnMarkValues == {0, 10, 25, 28, 30, 40}
FnWeights == {<<30, 30, 40>>, <<20, 30, 50>>, <<0, 40, 60>>}
FnMarks(w) == {None} \cup {Some(v) : v \in {x \in FnMarkValues : x <= w}}
FlagChoices == [Comps -> BOOLEAN]

\* The calls SpecFn starts from: a function and its arguments.
GradeRequests ==
    {[fn |-> "grade_point_and_letter_absolute", total |-> t] : t \in 0..MaxTotal}
MarkTriples ==
    UNION {FnMarks(w[1]) \X FnMarks(w[2]) \X FnMarks(w[3]) : w \in FnWeights}
TotalRequests ==
    {[fn |-> "total_percent_from_components", marks |-> m] : m \in MarkTriples}
ProjectionRequests ==
    UNION {[fn : {"required_scores_to_reach_target"},
            current_scores : FnMarks(w[1]) \X FnMarks(w[2]) \X FnMarks(w[3]),
            weights : {w}, remaining_flags : FlagChoices,
            target_gp : TargetOptions] : w \in FnWeights}

InitFn ==
    /\ num_courses = 1
    /\ course_names = <<"Course 1">>
    /\ same_weights = TRUE
    /\ gw = DefaultWeights
    /\ wkeys = <<>>
    /\ ec = <<ZeroMarks>>
    /\ session_state = <<>>
    /\ page = plain_page(<<>>, "init")
    /\ call \in {Some(r) : r \in GradeRequests \cup TotalRequests \cup ProjectionRequests}
    /\ computed = FALSE

Pending(c) == ~IsNone(c) /\ "done" \notin DOMAIN Val(c)

\* grade_point_and_letter_absolute(total)
CallGrade ==
    /\ Pending(call)
    /\ Val(call).fn = "grade_point_and_letter_absolute"
    /\ call' = Some([fn |-> Val(call).fn, total |-> Val(call).total, done |-> TRUE,
                     ret |-> grade_point_and_letter_absolute(Val(call).total)])
    /\ UNCHANGED <<inputs, session_state, page, computed>>

\* total_percent_from_components, then the absolute mapper (lines 261, 284)
GradeMarks ==
    /\ Pending(call)
    /\ Val(call).fn = "total_percent_from_components"
    /\ LET m == Val(call).marks
           total == total_percent_from_components(m[1], m[2], m[3])
       IN  call' = Some([fn |-> Val(call).fn, marks |-> m, done |-> TRUE,
                         total |-> total,
                         ret |-> grade_point_and_letter_absolute(total)])
    /\ UNCHANGED <<inputs, session_state, page, computed>>

\* A projection query {course state, attempt flags, target grade point}
ProjectionQuery ==
    /\ Pending(call)
    /\ Val(call).fn = "required_scores_to_reach_target"
    /\ call' = projection_request(Val(call).current_scores, Val(call).weights,
                                  Val(call).remaining_flags, Val(call).target_gp)
    /\ UNCHANGED <<inputs, session_state, page, computed>>

FnNext == CallGrade \/ GradeMarks \/ ProjectionQuery

SpecFn == InitFn /\ [][FnNext]_vars


\* ------------------------------------------------------------------------
\* Claims about the helper functions (checked under SpecFn)
\* ------------------------------------------------------------------------
Returned(fn) == ~IsNone(call) /\ "done" \in DOMAIN Val(call) /\ Val(call).fn = fn

\* need and capacity as the claims define them
ClaimNeed(c) ==
    c.target_total - (OrZero(c.current_scores[1]) + OrZero(c.current_scores[2])
                        + OrZero(c.current_scores[3]))
RECURSIVE SumOver(_, _)
SumOver(S, f) ==
    IF S = {} THEN 0
    ELSE LET k == CHOOSE x \in S : TRUE IN f[k] + SumOver(S \ {k}, f)
Attempted(c) == {k \in Comps : c.remaining_flags[k]}
ClaimCapacity(c) == SumOver(Attempted(c), c.weights)

\* C1: the absolute mapper puts every total in exactly one band with an
\* inclusive lower bound (90 A 10, 80 A- 9, 70 B 8, 60 B- 7, 50 C 6,
\* 45 C- 5, 35 D 4, else E 2); totals above 100 are A; the grade point is
\* always one of 10, 9, 8, 7, 6, 5, 4, 2.
C1_AbsoluteBands ==
    (Returned("grade_point_and_letter_absolute")
        \/ Returned("total_percent_from_components")) =>
    LET t == Val(call).total
        r == Val(call).ret
        Is(gp, letter) == r.gp = gp /\ r.letter = letter
    IN  /\ t >= 90 => Is(10, "A")
        /\ (80 <= t /\ t < 90) => Is(9, "A-")
        /\ (70 <= t /\ t < 80) => Is(8, "B")
        /\ (60 <= t /\ t < 70) => Is(7, "B-")
        /\ (50 <= t /\ t < 60) => Is(6, "C")
        /\ (45 <= t /\ t < 50) => Is(5, "C-")
        /\ (35 <= t /\ t < 45) => Is(4, "D")
        /\ t < 35 => Is(2, "E")
        /\ r.gp \in {10, 9, 8, 7, 6, 5, 4, 2}

\* C1 witness: the boundary total 45 was mapped, to the higher band.
C1_Witness ==
    /\ Returned("grade_point_and_letter_absolute")
    /\ Val(call).total = 45
    /\ Val(call).ret.gp = 5

\* C4: the solver's status is decided in the order already_met (need <= 0,
\* whatever the flags), impossible_no_remaining (capacity 0),
\* impossible_exceed (need > capacity), possible; a possible result carries
\* both the proportional allocation and the single-component minimums.
C4_StatusOrder ==
    Returned("required_scores_to_reach_target") =>
    LET c == Val(call)
        need == ClaimNeed(c)
        capacity == ClaimCapacity(c)
        status == c.req.status
    IN  /\ need <= 0 => status = "already_met"
        /\ (need > 0 /\ capacity = 0) => status = "impossible_no_remaining"
        /\ (need > 0 /\ capacity # 0 /\ need > capacity) => status = "impossible_exceed"
        /\ (need > 0 /\ capacity # 0 /\ need <= capacity) =>
              /\ status = "possible"
              /\ c.req.need = need
              /\ {"required_proportional", "required_single_comp"} \subseteq DOMAIN c.req

\* C4 witness: weights 30/30/40, marks 10, 10, pending, EC3 attempted,
\* target 90: need 70 exceeds capacity 40.
C4_Witness ==
    /\ Returned("required_scores_to_reach_target")
    /\ Val(call).weights = <<30, 30, 40>>
    /\ Val(call).current_scores = <<Some(10), Some(10), None>>
    /\ Val(call).remaining_flags = <<FALSE, FALSE, TRUE>>
    /\ Val(call).target_total = 90
    /\ Val(call).req.status = "impossible_exceed"
    /\ Val(call).req.need = 70 /\ Val(call).req.remaining_max = 40

\* The course total when attempted component i scores x, every other
\* attempted component its full weight, and the others keep their marks.
TotalWithOthersFull(c, i, x) ==
    x + SumOver(Attempted(c) \ {i}, c.weights)
      + SumOver(Comps \ Attempted(c), [k \in Comps |-> OrZero(c.current_scores[k])])

\* C5: when the status is possible, each attempted component's
\* single-component requirement is clamp(need - (capacity - w_i), 0, w_i)
\* and is the least mark x in 0..w_i with which, the other attempted
\* components at full weight and the rest unchanged, the total reaches the
\* target; a component that is not attempted gets no requirement.
C5_SingleIsMinimum ==
    (Returned("required_scores_to_reach_target") /\ Val(call).req.status = "possible") =>
    LET c == Val(call)
        need == ClaimNeed(c)
        capacity == ClaimCapacity(c)
    IN  \A i \in Comps :
          LET s == c.req.required_single_comp[i]
          IN  IF c.remaining_flags[i]
              THEN /\ ~IsNone(s)
                   /\ Val(s).required_absolute
                        = Min(Max(need - (capacity - c.weights[i]), 0), c.weights[i])
                   /\ TotalWithOthersFull(c, i, Val(s).required_absolute) >= c.target_total
                   /\ \A x \in 0..c.weights[i] :
                        TotalWithOthersFull(c, i, x) >= c.target_total
                            => Val(s).required_absolute <= x
              ELSE IsNone(s)

\* C6: when the status is possible, each attempted component is suggested
\* min(current + (w_i / capacity) * need, w_i), the increases over the
\* attempted components add up to need, so the suggested marks bring the
\* total to exactly the target; a component that is not attempted gets no
\* suggestion and keeps its mark.  (Quotients are over den = capacity.)
C6_ProportionalSumsToNeed ==
    (Returned("required_scores_to_reach_target") /\ Val(call).req.status = "possible") =>
    LET c == Val(call)
        need == ClaimNeed(c)
        capacity == ClaimCapacity(c)
        p == c.req.required_proportional
        cur == [k \in Comps |-> OrZero(c.current_scores[k])]
        num == [k \in Comps |-> IF c.remaining_flags[k]
                                THEN Val(p[k].suggested_total).num ELSE 0]
    IN  /\ \A i \in Comps :
              /\ p[i].current = cur[i]
              /\ IF c.remaining_flags[i]
                 THEN /\ Val(p[i].suggested_total).den = capacity
                      /\ num[i] = Min(cur[i] * capacity + c.weights[i] * need,
                                      c.weights[i] * capacity)
                 ELSE IsNone(p[i].suggested_total)
        /\ SumOver(Attempted(c), num)
             - capacity * SumOver(Attempted(c), cur) = capacity * need
        /\ SumOver(Attempted(c), num)
             + capacity * SumOver(Comps \ Attempted(c), cur) = capacity * c.target_total

\* The marks component k can end with: a mark in 0..w_k (in steps of 10,
\* which include 0 and every full weight) when it is attempted, its current
\* mark (0 when pending) when it is not.
MarksFor(c, k) ==
    IF c.remaining_flags[k]
    THEN {v \in 0..c.weights[k] : v % 10 = 0}
    ELSE {OrZero(c.current_scores[k])}

CanReach(c) ==
    \E x1 \in MarksFor(c, 1), x2 \in MarksFor(c, 2), x3 \in MarksFor(c, 3) :
        x1 + x2 + x3 >= c.target_total

\* C11: the projection status is sound: when it is possible (Reachable)
\* some assignment of marks in 0..w_i to the attempted components, the
\* others keeping their marks, brings the course total to the target; when
\* it is impossible_no_remaining or impossible_exceed (Unreachable) no
\* such assignment does.  Attempt flags may be set on components that
\* already have a mark.
C11_ProjectionSound ==
    Returned("required_scores_to_reach_target") =>
    LET c == Val(call)
    IN  /\ c.req.status = "possible" => CanReach(c)
        /\ c.req.status \in {"impossible_no_remaining", "impossible_exceed"}
              => ~CanReach(c)

\* C8: gp_to_total[g] is the least total whose absolute grade point is at
\* least g, for each of the eight targets, and so a projection answers
\* already_met for target g exactly when the absolute grade point of the
\* current total (pending marks counted as 0) is at least g.
C8_InverseFloor ==
    /\ \A g \in TargetOptions :
          /\ grade_point_and_letter_absolute(gp_to_total(g)).gp >= g
          /\ \A t \in 0..MaxTotal :
                grade_point_and_letter_absolute(t).gp >= g => gp_to_total(g) <= t
    /\ Returned("required_scores_to_reach_target") =>
          LET c == Val(call)
              total == total_percent_from_components(c.current_scores[1],
                           c.current_scores[2], c.current_scores[3])
          IN  (c.req.status = "already_met")
                 <=> (grade_point_and_letter_absolute(total).gp >= c.target_gp)

\* C8 witness: a current total of exactly 45 against target grade point 5.
C8_Witness ==
    /\ Returned("required_scores_to_reach_target")
    /\ Val(call).target_gp = 5
    /\ ClaimNeed(Val(call)) = 0
    /\ Val(call).req.status = "already_met"


\* ------------------------------------------------------------------------
\* Claims about the session (checked under Spec)
\* ------------------------------------------------------------------------
\* The courses whose weights differ from 100, as the claims define them.
Offending ==
    {i \in Courses :
        LET w == CourseWeights(same_weights, gw, wkeys, i)
        IN  w[1] + w[2] + w[3] # 100}

\* C2: a Compute while some course's weights do not sum to 100 is blocked:
\* one error per offending course, naming it; no results table and no
\* aggregate; and the stored keys are exactly as before.
C2_InvalidWeightsBlock ==
    [][(page'.run = "compute" /\ Offending # {}) =>
          /\ page'.stopped
          /\ Len(page'.errors) = Cardinality(Offending)
          /\ {e.course : e \in {page'.errors[k] : k \in DOMAIN page'.errors}}
                = {course_names[i] : i \in Offending}
          /\ IsNone(page'.results)
          /\ IsNone(page'.cgpa)
          /\ session_state' = session_state]_vars

\* C2 witness: a blocked Compute with both courses at fault, while results
\* of an earlier Compute are stored.
C2_Witness ==
    /\ page.run = "compute" /\ page.stopped
    /\ Len(page.errors) = 2
    /\ has_results(session_state)

GradePoints(res_df) == [i \in DOMAIN res_df |-> res_df[i].Grade_Point]
UnitChoices == {4, 5}

ClaimStats(g) ==
    IF ~IsNone(g.cohort_upload) /\ Val(g.cohort_upload).numeric
    THEN Some([mean |-> Val(g.cohort_upload).mean, std |-> Val(g.cohort_upload).std])
    ELSE IF g.manual_mean > 0 /\ g.manual_std > 0
    THEN Some([mean |-> g.manual_mean, std |-> g.manual_std])
    ELSE None

\* The first letter in rank order whose cutoff mean + mult * std is at most
\* the total (multipliers in tenths), else E with grade point 2.
ClaimRelative(total, st, mult) ==
    LET ok(k) == 10 * total >= 10 * st.mean + mult[order[k][1]] * st.std
    IN  IF \E k \in 1..8 : ok(k)
        THEN LET k == CHOOSE x \in 1..8 : ok(x) /\ \A y \in 1..(x - 1) : ~ok(y)
             IN  <<order[k][2], order[k][1]>>
        ELSE <<2, "E">>

\* C7: on a Compute in Relative mode every course is graded by the absolute
\* policy when no statistics are available, and otherwise by the first
\* letter in rank order whose cutoff is at most its total (E / 2 when none
\* is); an uploaded sample takes precedence over the manual mean and std.
C7_RelativePolicy ==
    (~IsNone(page.results) /\ Val(page.grading).grading_mode = RelativeMode) =>
    LET g == Val(page.grading)
        rows == Val(page.results)
        cd == session_state["courses_data"]
    IN  \A i \in DOMAIN rows :
          LET total == OrZero(cd[i].ec1) + OrZero(cd[i].ec2) + OrZero(cd[i].ec3)
              abs == grade_point_and_letter_absolute(total)
          IN  <<rows[i].Grade_Point, rows[i].Grade>> =
                 IF IsNone(ClaimStats(g)) THEN <<abs.gp, abs.letter>>
                 ELSE ClaimRelative(total, Val(ClaimStats(g)), g.multipliers)

\* The part of the lifecycle that does not concern the projection: results
\* are stored exactly when a valid Compute happened since the last Reset; a
\* valid Compute replaces the stored results, Reset removes them with the
\* marks, pending flags and per-course weights, and editing inputs or
\* running a projection leaves them unchanged.
C9_Transitions ==
    /\ has_results(session_state) <=> computed
    /\ has_results(session_state') <=> computed'
    /\ (page'.run = "compute" /\ Offending = {}) =>
          /\ DOMAIN session_state' = StoredKeys
          /\ session_state'["last_results_df"] = Val(page'.results)
          /\ Len(session_state'["last_results_df"]) = num_courses
          /\ session_state'["courses_data"]
                = courses_data_of(num_courses, course_names, same_weights, gw, wkeys, ec)
    /\ page'.run = "reset" =>
          /\ DOMAIN session_state' \cap StoredKeys = {}
          /\ ec' = [i \in Courses |-> ZeroMarks]
          /\ \A i \in DOMAIN wkeys' : wkeys'[i] = DefaultWeights
    /\ page'.run \in {"input", "project"} => session_state' = session_state

\* C9 as stated: results are stored exactly when a valid Compute happened
\* since the last Reset, with the transitions above, and the projection is
\* offered exactly when results are stored.
C9_LifecycleAsStated ==
    [][/\ C9_Transitions
       /\ (page.projection = "offered") <=> has_results(session_state)
       /\ (page'.projection = "offered") <=> has_results(session_state')]_vars

\* C9 as amended: as stated, except that the projection is offered exactly
\* in the runs where results are stored and the run was not halted by the
\* weight validation of Compute (st.stop() ends such a run before the
\* projection area, also when results of an earlier Compute are stored).
C9_LifecycleAmended ==
    [][/\ C9_Transitions
       /\ (page.projection = "offered")
             <=> (has_results(session_state) /\ ~page.stopped)
       /\ (page'.projection = "offered")
             <=> (has_results(session_state') /\ ~page'.stopped)]_vars

\* C9 witness: results stored, then a Compute blocked by invalid weights:
\* the results are still stored and no projection is on the page.
C9_Witness ==
    /\ has_results(session_state) /\ computed
    /\ page.run = "compute" /\ page.stopped
    /\ page.projection = "none"

\* C10: the projection area shows the absolute-cutoff warning exactly when
\* the stored results were produced by a Compute in Relative mode.
C10_RelativeWarning ==
    page.projection = "offered" =>
        (page.warning <=> session_state["grading_mode_saved"] = RelativeMode)

\* C12: whenever results are stored, the stored snapshot courses_data lists
\* the same courses in the same order as the stored results table, and a
\* projection for a course listed in the results works on the marks and
\* weights the snapshot records for that same course, also when two
\* courses have the same name: every listed course whose selection gives
\* this projection is the one whose data was used.
C12_SnapshotLookup ==
    has_results(session_state) =>
    LET df_prev == session_state["last_results_df"]
        cd == session_state["courses_data"]
    IN  /\ DOMAIN cd = DOMAIN df_prev
        /\ \A i \in DOMAIN df_prev : cd[i].name = df_prev[i].Course
        /\ (page.run = "project" /\ ~IsNone(call)) =>
              \A i \in DOMAIN df_prev :
                  df_prev[i].Course = Val(call).chosen_course =>
                      /\ Val(call).current_scores = <<cd[i].ec1, cd[i].ec2, cd[i].ec3>>
                      /\ Val(call).weights = <<cd[i].w1, cd[i].w2, cd[i].w3>>

====
